---- MODULE Spec2Model ----
(***************************************************************************)
(* git-vain: search for author/committer timestamp deltas that give the    *)
(* HEAD commit a digest starting with a chosen hex prefix.                  *)
(* Model of src/git-vain.c (the current program); the older snapshot       *)
(* src/prog.c is modelled where its functions differ (alter, shacmp).      *)
(* Bytes are integers 0..255, C strings and buffers are sequences indexed  *)
(* from 1 (C index i is element i+1).                                       *)
(***************************************************************************)
EXTENDS Integers, Sequences, FiniteSets, TLC

VARIABLES
  commit,      \* char *commit: base buffer returned by getCommit, shared by all workers
  message,     \* char message[MAX_MESSAGE]: the target pattern (chars up to the NUL)
  messageLen,  \* int messageLen
  hexMessage,  \* unsigned char hexMessage[MAX_MESSAGE/2]
  dry_run,     \* bool dry_run
  headerLen, commitLen, authOffset, commOffset, authDate, commDate, dateLen,  \* int globals
  gctx,        \* CC_SHA1_CTX gctx: digest state after the invariant prefix
  matching,    \* history: the delta pairs within the radius whose candidate matches
  found,       \* volatile bool found
  count,       \* int count
  pc,          \* per worker: position in Search / ammend_commit
  n,           \* per worker: loop index n of Search
  newCommit,   \* per worker: scratch buffer newCommit[0..commitLen)
  hash,        \* per worker: unsigned char hash[SHA_DIGEST_LENGTH]
  delta,       \* per worker: <<da, dc>>
  tmp,         \* per worker: value of count read by count++
  tmpfile,     \* contents of /tmp/commit
  store,       \* git object store (set of objects)
  HEAD,        \* git HEAD
  log,         \* history: per worker, its finalizer's reports and backend commands, in order
  evals,       \* history: per worker, the indices n it hashed, in order
  late,        \* history: per worker, the candidates it hashed after found was set
  status,      \* process: "running", "exit0" (main returned), "exit1" (exit(1))
  sp_R, sp_n, sp_seen,        \* enumeration harness: radius, index, pairs visited
  cm_sha, cm_res, cm_old,     \* match harness: digest, shacmp results (git-vain.c, prog.c)
  al_buf, al_old, al_n        \* builder harness: scratch buffers (git-vain.c, prog.c), steps

vars == <<commit, message, messageLen, hexMessage, dry_run, headerLen, commitLen,
          authOffset, commOffset, authDate, commDate, dateLen, gctx, matching, found, count, pc, n, newCommit, hash,
          delta, tmp, tmpfile, store, HEAD, log, evals, late, status,
          sp_R, sp_n, sp_seen, cm_sha, cm_res, cm_old, al_buf, al_old, al_n>>

\* what main sets before it starts the workers
globals == <<commit, message, messageLen, hexMessage, dry_run, headerLen, commitLen,
             authOffset, commOffset, authDate, commDate, dateLen, gctx, matching>>
spVars == <<sp_R, sp_n, sp_seen>>
cmVars == <<cm_sha, cm_res, cm_old>>
alVars == <<al_buf, al_old, al_n>>
harnessVars == <<spVars, cmVars, alVars>>

----------------------------------------------------------------------------
(* Bounds of the model *)

Radius == 1          \* radius searched by Search (3600 in the program)
NumThreads == 2      \* worker threads started by main (MAX_THREADS = 8 in the program)
MaxRadius == 4       \* radii enumerated by the enumeration harness
MaxPatLen == 3       \* pattern lengths drawn by the match harness
MaxAlter == 3        \* alter calls applied by the builder harness
MaxDelta == 2        \* |delta| drawn by the builder harness

SHA_DIGEST_LENGTH == 20
MAX_MESSAGE == 17

----------------------------------------------------------------------------
(* C arithmetic and string helpers *)

\* C integer division and remainder truncate toward zero
CDiv(a, b) == IF a >= 0 THEN a \div b ELSE -((-a) \div b)
CMod(a, b) == a - b * CDiv(a, b)

Abs(a) == IF a < 0 THEN -a ELSE a
Max2(a, b) == IF a >= b THEN a ELSE b

\* C index i of buffer b
At(b, i) == b[i + 1]

\* bytes [from, to) of buffer b
Slice(b, from, to) == SubSeq(b, from + 1, to)

\* strlen from C index i: number of bytes before the first NUL
SetMin(S) == CHOOSE x \in S : \A y \in S : x <= y
strlenFrom(b, i) ==
  LET nuls == {k \in i..(Len(b) - 1) : At(b, k) = 0}
  IN IF nuls = {} THEN Max2(Len(b) - i, 0) ELSE SetMin(nuls) - i

\* sprintf("%d", v): decimal digits, most significant first, '-' for negatives
RECURSIVE DecDigits(_)
DecDigits(v) == IF v < 10 THEN <<48 + v>> ELSE Append(DecDigits(v \div 10), 48 + (v % 10))
sprintf_d(v) == IF v < 0 THEN <<45>> \o DecDigits(-v) ELSE DecDigits(v)

\* atoi: value of the leading decimal digits
RECURSIVE atoiFrom(_, _, _)
atoiFrom(s, i, acc) ==
  IF i > Len(s) \/ s[i] < 48 \/ s[i] > 57 THEN acc
  ELSE atoiFrom(s, i + 1, acc * 10 + (s[i] - 48))
atoi(s) == atoiFrom(s, 1, 0)

\* sprintf("%02x", byte): two lower-case hex characters
HexChar(v) == IF v < 10 THEN 48 + v ELSE 87 + v
sprintf_02x(byte) == <<HexChar(byte \div 16), HexChar(byte % 16)>>

\* strtoul(pair, NULL, 16) on lower-case hex characters, stopping at the NUL
HexVal(c) == IF c >= 97 THEN c - 87 ELSE c - 48
RECURSIVE strtoul16(_, _, _)
strtoul16(s, i, acc) ==
  IF i > Len(s) \/ s[i] = 0 THEN acc ELSE strtoul16(s, i + 1, acc * 16 + HexVal(s[i]))

----------------------------------------------------------------------------
(* The digest: a streaming hash standing for CommonCrypto's SHA-1.  The      *)
(* context holds the running state and the number of bytes absorbed; Update *)
(* absorbs the bytes in stream order, Final mixes in the length.             *)

CC_SHA1_Init == [h |-> 7, len |-> 0]

\* what absorbing data[lo..hi] adds to the state when `base` bytes came before:
\* every byte weighted by its position in the whole stream
\* (C passes arguments by value: each one is bound once, here and below, by
\* ranging over the singleton set that holds it)
RECURSIVE Absorb(_, _, _, _)
Absorb(data, base, lo, hi) ==
  IF lo > hi THEN 0
  ELSE IF lo = hi THEN (data[lo] + 1) * (((base + lo) * (base + lo) + 41) % 251)
  ELSE CHOOSE sum \in {Absorb(data, base, lo, mid) + Absorb(data, base, mid + 1, hi) :
                       mid \in {(lo + hi) \div 2}} : TRUE

CC_SHA1_Update(ctx, data) ==
  CHOOSE next \in {[h |-> (c.h + Absorb(d, c.len, 1, Len(d))) % 251, len |-> c.len + Len(d)] :
                   c \in {ctx}, d \in {data}} : TRUE

CC_SHA1_Final(ctx) ==
  CHOOSE md \in {SubSeq([k \in 1..SHA_DIGEST_LENGTH |-> (v * (k + 16) + (k - 1) * 37) % 256],
                        1, SHA_DIGEST_LENGTH) :
                 v \in {(c.h * 5 + c.len) % 251 : c \in {ctx}}} : TRUE

\* one-shot digest of a whole buffer (CC_SHA1 in prog.c)
SHA1(data) == CC_SHA1_Final(CC_SHA1_Update(CC_SHA1_Init, data))

----------------------------------------------------------------------------
(* Commit Model: getCommit, main's header scan, getTimeOffset, dateAtOffset *)

AuthorMarker == <<10, 97, 117, 116, 104, 111, 114, 32>>                    \* "\nauthor "
CommitterMarker == <<10, 99, 111, 109, 109, 105, 116, 116, 101, 114, 32>>  \* "\ncommitter "
GtSpace == <<62, 32>>                                                      \* "> "

\* what `git cat-file -p HEAD` prints for a commit with the two timestamps:
\* "tree 0\nauthor a <a> A +0000\ncommitter c <c> C +0000\n\nmsg\n"
CatFile(aDate, cDate) ==
  <<116, 114, 101, 101, 32, 48>>
  \o AuthorMarker \o <<97, 32, 60, 97, 62, 32>> \o sprintf_d(aDate) \o <<32, 43, 48, 48, 48, 48>>
  \o CommitterMarker \o <<99, 32, 60, 99, 62, 32>> \o sprintf_d(cDate) \o <<32, 43, 48, 48, 48, 48>>
  \o <<10, 10, 109, 115, 103, 10>>

\* the header git hashes in front of a commit body: "commit <len>" and a NUL
GitHeader(body) == <<99, 111, 109, 109, 105, 116, 32>> \o sprintf_d(Len(body)) \o <<0>>

\* getCommit: header, NUL, body (the bytes [0, commitLen) of the result)
getCommit(body) == GitHeader(body) \o body

\* main: headerLen = (first NUL) + 1; commitLen = strlen(commit) + 1 + strlen(commitMsg)
HeaderLenOf(buf) == strlenFrom(buf, 0) + 1
CommitLenOf(buf) == strlenFrom(buf, 0) + 1 + strlenFrom(buf, HeaderLenOf(buf))

\* strncmp(ptr, search, searchlen) == 0 at C index p
StrnEq(buf, p, search) ==
  \A k \in 0..(Len(search) - 1) : p + k < Len(buf) /\ At(buf, p + k) = search[k + 1]

\* for( ; ptr < limit; ptr++) if (!strncmp(ptr, search, searchlen)) break;
\* (the first match in [p, limit), else where the loop stops)
ScanFor(buf, p, limit, search) ==
  LET hits == {q \in p..(limit - 1) : StrnEq(buf, q, search)}
  IN IF hits # {} THEN SetMin(hits) ELSE Max2(p, limit)

getTimeOffset(search, buf) ==
  LET len == strlenFrom(buf, headerLen)
      p1 == ScanFor(buf, headerLen, len - Len(search), search) + Len(search)
      p2 == ScanFor(buf, p1, len - 2, GtSpace) + 2
  IN p2

\* the characters from offset up to the next ' ' (at most 17), through atoi
UpToSpace(buf, p, k) ==
  LET last == IF p + k < Len(buf) THEN p + k ELSE Len(buf)
      stops == {q \in p..(last - 1) : At(buf, q) = 32}
  IN Slice(buf, p, IF stops # {} THEN SetMin(stops) ELSE Max2(p, last))
dateAtOffset(offset, buf) == atoi(UpToSpace(buf, offset, 17))

\* main: the globals derived from the commit and the digest of its invariant prefix
ParseCommit ==
  /\ headerLen = HeaderLenOf(commit)
  /\ commitLen = CommitLenOf(commit)
  /\ authOffset = getTimeOffset(AuthorMarker, commit)
  /\ commOffset = getTimeOffset(CommitterMarker, commit)
  /\ authDate = dateAtOffset(authOffset, commit)
  /\ commDate = dateAtOffset(commOffset, commit)
  /\ dateLen = Len(sprintf_d(authDate))

----------------------------------------------------------------------------
(* Delta Enumerator *)

\* a square root rounded up instead of truncated
isqrt_ceil(k) == CHOOSE r \in 0..k : r * r >= k /\ (r = 0 \/ (r - 1) * (r - 1) < k)

\* (int) sqrt(n): sqrt is exact enough on the integers the loop ranges over
isqrt(k) == CHOOSE r \in 0..k : r * r <= k /\ k < (r + 1) * (r + 1)

\* the second side of the ring not mirrored: x = e instead of x = -e
spiral_pair_unmirrored(k) ==
  LET s == (isqrt(k) + 1) \div 2
      lt == k - (((2 * s) - 1) * ((2 * s) - 1))
      l == CDiv(lt, 2 * s)
      e == lt - (2 * s * l) - s + 1
  IN CASE l = 0 -> <<s, e>>
       [] l = 1 -> <<e, s>>
       [] l = 2 -> <<-s, -e>>
       [] OTHER -> <<e, -s>>

spiral_pair(k) ==
  LET s == (isqrt(k) + 1) \div 2      \* int s = (sqrt(n)+1)/2
      lt == k - (((2 * s) - 1) * ((2 * s) - 1))
      l == CDiv(lt, 2 * s)
      e == lt - (2 * s * l) - s + 1
  IN CASE l = 0 -> <<s, e>>
       [] l = 1 -> <<-e, s>>
       [] l = 2 -> <<-s, -e>>
       [] OTHER -> <<e, -s>>

spiral_max(max_side) == (max_side * 2 + 1) * (max_side * 2 + 1) - 1

----------------------------------------------------------------------------
(* Candidate Builder *)

\* digits written one byte to the right: dst[i+1] instead of dst[i]
RECURSIVE mytoa_shifted(_, _, _, _)
mytoa_shifted(i, val, dst, buf) ==
  IF i = 0 THEN buf
  ELSE mytoa_shifted(i - 1, CDiv(val, 10), dst,
                     [buf EXCEPT ![dst + i + 2] = (CMod(val, 10) + 48) % 256])

\* mytoa: for (i = dateLen-1; i; --i) { dst[i] = val % 10 + '0'; val /= 10; }
RECURSIVE mytoa(_, _, _, _)
mytoa(i, val, dst, buf) ==
  IF i = 0 THEN buf
  ELSE mytoa(i - 1, CDiv(val, 10), dst,
             [buf EXCEPT ![dst + i + 1] = (CMod(val, 10) + 48) % 256])

alter(buf, aOff, aDate, cOff, cDate) ==
  mytoa(dateLen - 1, cDate, cOff, mytoa(dateLen - 1, aDate, aOff, buf))

\* prog.c: for (i = 0; datestr[i] != '\0'; i++) newCommit[off+i] = datestr[i];
RECURSIVE WriteStr(_, _, _, _)
WriteStr(buf, off, str, i) ==
  IF i >= Len(str) THEN buf
  ELSE WriteStr([buf EXCEPT ![off + i + 1] = str[i + 1]], off, str, i + 1)

prog_alter(buf, aOff, aDate, cOff, cDate) ==
  WriteStr(WriteStr(buf, aOff, sprintf_d(aDate), 0), cOff, sprintf_d(cDate), 0)

----------------------------------------------------------------------------
(* Match Predicate *)

\* main: messageLen = strlen(message); translate string hex to bytes, pair by pair
TranslateHex(msg) ==
  [k \in 0..((MAX_MESSAGE \div 2) - 1) |->
     IF 2 * k < Len(msg)
     THEN strtoul16(<<msg[2 * k + 1], IF 2 * k + 1 < Len(msg) THEN msg[2 * k + 2] ELSE 0>>,
                    1, 0) % 256
     ELSE 0]

ParseMessage ==
  /\ messageLen = Len(message)
  /\ hexMessage = TranslateHex(message)

\* the odd final character compared with the low nibble instead of the high one
RECURSIVE shacmpLoop_low(_, _)
shacmpLoop_low(i, sha) ==
  IF i < messageLen - 1
  THEN IF hexMessage[i \div 2] # At(sha, i \div 2) THEN FALSE ELSE shacmpLoop_low(i + 2, sha)
  ELSE IF i = messageLen - 1
       THEN ~(hexMessage[i \div 2] # (At(sha, i \div 2) % 16))
       ELSE TRUE

shacmp_low(sha) == shacmpLoop_low(0, sha)

RECURSIVE shacmpLoop(_, _)
shacmpLoop(i, sha) ==
  IF i < messageLen - 1
  THEN IF hexMessage[i \div 2] # At(sha, i \div 2) THEN FALSE ELSE shacmpLoop(i + 2, sha)
  ELSE IF i = messageLen - 1
       THEN ~(hexMessage[i \div 2] # (At(sha, i \div 2) \div 16))
       ELSE TRUE

shacmp(sha) == shacmpLoop(0, sha)

\* prog.c: compare the goal with the digest rendered as hex, character by character
RECURSIVE prog_shacmpLoop(_, _, _)
prog_shacmpLoop(goal, sha, k) ==
  IF k >= 2 * SHA_DIGEST_LENGTH THEN FALSE    \* "something went wrong with shacmp"; exit(1)
  ELSE IF (IF k < Len(goal) THEN goal[k + 1] ELSE 0) # sprintf_02x(At(sha, k \div 2))[(k % 2) + 1]
       THEN FALSE
       ELSE IF k + 1 >= Len(goal) THEN TRUE
       ELSE prog_shacmpLoop(goal, sha, k + 1)

prog_shacmp(goal, sha) == prog_shacmpLoop(goal, sha, 0)

----------------------------------------------------------------------------
(* The version-control backend: objects are named by the 40 hex characters  *)
(* of their digest; `up` counts the steps from the original HEAD commit     *)
(* down its first-parent chain (0 for HEAD itself and for every rewritten   *)
(* commit, which keeps the original's parent).                              *)

HistoryDepth == 2    \* ancestors of the original HEAD present in the repository

\* for (i < SHA_DIGEST_LENGTH) sprintf(progHash+i*2, "%02x", sha[i])
HexString(sha) ==
  CHOOSE hex \in {SubSeq([k \in 1..(2 * Len(s)) |-> sprintf_02x(s[(k + 1) \div 2])[2 - (k % 2)]],
                         1, 2 * Len(s)) : s \in {sha}} : TRUE

\* git hash-object -t commit <file>: the digest of header + contents, in hex
GitHashObject(contents) ==
  CHOOSE hex \in {HexString(SHA1(object)) : object \in {GitHeader(contents) \o contents}} : TRUE

Ancestor(k) == [sha |-> <<>>, up |-> k]
CommitObject(hex) == [sha |-> hex, up |-> 0]

\* git reset --soft HEAD^ : fails (HEAD unchanged) when HEAD has no parent
ResetToParent(head, objects) ==
  IF Ancestor(head.up + 1) \in objects THEN Ancestor(head.up + 1) ELSE head

\* git reset --soft <sha> : fails (HEAD unchanged) when no such object exists
ResetToSha(head, objects, hex) ==
  IF CommitObject(hex) \in objects THEN CommitObject(hex) ELSE head

----------------------------------------------------------------------------
(* Search Coordinator and Commit Finalizer *)

Workers == 0..(NumThreads - 1)

\* a stride one short of the number of workers
ArgsSkip_short == NumThreads - 1

\* every worker started at index 1
ArgsStart_same(i) == 1

\* main: searchArgs args = { i+1, MAX_THREADS, commit }
ArgsStart(i) == i + 1
ArgsSkip == NumThreads

\* Search: int max = spiral_max(3600)
SearchMax == spiral_max(Radius)

\* main: CC_SHA1_Update(&gctx, commit, authOffset)
PrefixLen == authOffset

\* the worker absorbing its buffer from one byte past the prefix
PartialDigest_short(buf) ==
  CC_SHA1_Final(CC_SHA1_Update(gctx, Slice(buf, authOffset + 1, commitLen)))

\* Search: ctx = gctx; CC_SHA1_Update(&ctx, newCommit+authOffset, commitLen-authOffset)
PartialDigest(buf) == CC_SHA1_Final(CC_SHA1_Update(gctx, Slice(buf, authOffset, commitLen)))

Event(ev) == [ev |-> ev, da |-> 0, dc |-> 0, git |-> <<>>, prog |-> <<>>]
Logged(w, events) == log' = [log EXCEPT ![w] = log[w] \o events]

\* the loop's n = n + args.skip after the body
NextIndex(w) == n' = [n EXCEPT ![w] = n[w] + ArgsSkip]

\* for (n = start; n < max; ...) { if (count++ % 5000 == 0) ... : the read of count
LoopTest(w) ==
  /\ status = "running" /\ pc[w] = "loop"
  /\ IF n[w] < SearchMax
     THEN /\ tmp' = [tmp EXCEPT ![w] = count]
          /\ pc' = [pc EXCEPT ![w] = "inc"]
     ELSE /\ pc' = [pc EXCEPT ![w] = "done"]
          /\ tmp' = tmp
  /\ UNCHANGED <<harnessVars, globals, found, count, n, newCommit, hash,
                 delta, tmpfile, store, HEAD, log, evals, late, status>>

\* count++ : the write of count (the value read is dead afterwards)
Inc(w) ==
  /\ status = "running" /\ pc[w] = "inc"
  /\ count' = tmp[w] + 1
  /\ tmp' = [tmp EXCEPT ![w] = 0]
  /\ pc' = [pc EXCEPT ![w] = "check"]
  /\ UNCHANGED <<harnessVars, globals, found, n, newCommit, hash,
                 delta, tmpfile, store, HEAD, log, evals, late, status>>

\* the flag never looked at
StopsAtCheck_never == FALSE

\* if (found) { return NULL; }
StopsAtCheck == found

\* the read of found at the top of the loop body
Check(w) ==
  /\ status = "running" /\ pc[w] = "check"
  /\ pc' = [pc EXCEPT ![w] = IF StopsAtCheck THEN "done" ELSE "eval"]
  /\ UNCHANGED <<harnessVars, globals, found, count, n, newCommit, hash,
                 delta, tmp, tmpfile, store, HEAD, log, evals, late, status>>

\* spiral_pair; alter; digest; shacmp: the worker's local computation between the
\* read of found and its next access to shared state
Evaluate(w) ==
  /\ status = "running" /\ pc[w] = "eval"
  /\ LET d == spiral_pair(n[w])
         buf == alter(newCommit[w], authOffset, authDate + d[1],
                      commOffset, commDate + d[2])
         sha == PartialDigest(buf)
     IN /\ delta' = [delta EXCEPT ![w] = d]
        /\ newCommit' = [newCommit EXCEPT ![w] = buf]
        /\ hash' = [hash EXCEPT ![w] = sha]
        /\ evals' = [evals EXCEPT ![w] = Append(evals[w], n[w])]
        /\ late' = [late EXCEPT ![w] = late[w] + (IF found THEN 1 ELSE 0)]
        /\ IF shacmp(sha)
           THEN pc' = [pc EXCEPT ![w] = "claim"] /\ n' = n
           ELSE pc' = [pc EXCEPT ![w] = "loop"] /\ NextIndex(w)
  /\ UNCHANGED <<harnessVars, globals, found, count, tmp,
                 tmpfile, store, HEAD, log, status>>

\* the flag flipped instead of set
ClaimedValue_flipped == ~found

\* the value stored by found = true
ClaimedValue == TRUE

\* if (shacmp(hash)) { found = true; ...
Claim(w) ==
  /\ status = "running" /\ pc[w] = "claim"
  /\ found' = ClaimedValue
  /\ pc' = [pc EXCEPT ![w] = "report"]
  /\ UNCHANGED <<harnessVars, globals, count, n, newCommit, hash,
                 delta, tmp, tmpfile, store, HEAD, log, evals, late, status>>

\* the dry-run test dropped
ReturnsAfterReport_never == FALSE

\* ammend_commit: if (dry_run) { return; }
ReturnsAfterReport == dry_run

\* ammend_commit: the report, then return when dry_run
Report(w) ==
  /\ status = "running" /\ pc[w] = "report"
  /\ Logged(w, <<[Event("report") EXCEPT !.da = delta[w][1], !.dc = delta[w][2],
                                          !.prog = HexString(hash[w])]>>)
  /\ IF ReturnsAfterReport
     THEN /\ pc' = [pc EXCEPT ![w] = "loop"]
          /\ NextIndex(w)
     ELSE /\ pc' = [pc EXCEPT ![w] = "write"]
          /\ n' = n
  /\ UNCHANGED <<harnessVars, globals, found, count, newCommit, hash,
                 delta, tmp, tmpfile, store, HEAD, evals, late, status>>

\* fopen("/tmp/commit", "wb"); fwrite(newCommit+headerLen, 1, commitLen-headerLen, fp)
WriteFile(w) ==
  /\ status = "running" /\ pc[w] = "write"
  /\ tmpfile' = Slice(newCommit[w], headerLen, commitLen)
  /\ Logged(w, <<Event("fwrite")>>)
  /\ pc' = [pc EXCEPT ![w] = "hashobj"]
  /\ UNCHANGED <<harnessVars, globals, found, count, n, newCommit, hash,
                 delta, tmp, store, HEAD, evals, late, status>>

\* the comparison's result ignored
HashesAgree_always(gitHash, progHash) == TRUE

\* strcmp(gitHash, progHash) == 0
HashesAgree(gitHash, progHash) == gitHash = progHash

\* git hash-object -t commit /tmp/commit; exit(1) when the hashes differ
Verify(w) ==
  /\ status = "running" /\ pc[w] = "hashobj"
  /\ LET gitHash == GitHashObject(tmpfile)
         progHash == HexString(hash[w])
     IN IF HashesAgree(gitHash, progHash)
        THEN /\ Logged(w, <<[Event("hash-object") EXCEPT !.git = gitHash, !.prog = progHash]>>)
             /\ pc' = [pc EXCEPT ![w] = "reset1"]
             /\ status' = status
        ELSE /\ Logged(w, <<[Event("hash-object") EXCEPT !.git = gitHash, !.prog = progHash]>>)
             /\ pc' = pc
             /\ status' = "exit1"
  /\ UNCHANGED <<harnessVars, globals, found, count, n, newCommit, hash,
                 delta, tmp, tmpfile, store, HEAD, evals, late>>

\* git reset --soft HEAD^
ResetParent(w) ==
  /\ status = "running" /\ pc[w] = "reset1"
  /\ HEAD' = ResetToParent(HEAD, store)
  /\ Logged(w, <<Event("reset-parent")>>)
  /\ pc' = [pc EXCEPT ![w] = "writeobj"]
  /\ UNCHANGED <<harnessVars, globals, found, count, n, newCommit, hash,
                 delta, tmp, tmpfile, store, evals, late, status>>

\* git hash-object -t commit -w /tmp/commit
WriteObject(w) ==
  /\ status = "running" /\ pc[w] = "writeobj"
  /\ store' = store \cup {CommitObject(GitHashObject(tmpfile))}
  /\ Logged(w, <<Event("hash-object-w")>>)
  /\ pc' = [pc EXCEPT ![w] = "reset2"]
  /\ UNCHANGED <<harnessVars, globals, found, count, n, newCommit, hash,
                 delta, tmp, tmpfile, HEAD, evals, late, status>>

\* git reset --soft <progHash>; ammend_commit returns into the loop
ResetSha(w) ==
  /\ status = "running" /\ pc[w] = "reset2"
  /\ HEAD' = ResetToSha(HEAD, store, HexString(hash[w]))
  /\ Logged(w, <<Event("reset-sha")>>)
  /\ pc' = [pc EXCEPT ![w] = "loop"]
  /\ NextIndex(w)
  /\ UNCHANGED <<harnessVars, globals, found, count, newCommit, hash,
                 delta, tmp, tmpfile, store, evals, late, status>>

\* a join that never returns
Joined_never == FALSE

\* main: for (i < MAX_THREADS) pthread_join(threads[i], NULL)
Joined == \A w \in Workers : pc[w] = "done"

\* main: pthread_join of every worker, return 0
Join ==
  /\ status = "running"
  /\ Joined
  /\ status' = "exit0"
  /\ UNCHANGED <<harnessVars, globals, found, count, pc, n, newCommit, hash,
                 delta, tmp, tmpfile, store, HEAD, log, evals, late>>

----------------------------------------------------------------------------
(* Specification of a run: main up to the creation of the workers, then the *)
(* workers' interleaving.                                                    *)

\* author and committer times of the HEAD commit, and the patterns searched for:
\* for the times 50/53: "f" (candidates of two workers match), "4d" (one candidate
\* matches), "e" (none does), "b" (none of the enumerated ones does at radius 1);
\* for the times 99/53: "b" matches at an author time of three digits
BaseDates == {<<50, 53>>, <<99, 53>>}
RunInputs == {<<<<102>>, FALSE, <<50, 53>>>>, <<<<102>>, TRUE, <<50, 53>>>>,
              <<<<52, 100>>, FALSE, <<50, 53>>>>, <<<<52, 100>>, TRUE, <<50, 53>>>>,
              <<<<101>>, FALSE, <<50, 53>>>>, <<<<98>>, TRUE, <<50, 53>>>>,
              <<<<98>>, TRUE, <<99, 53>>>>}

\* the pairs (x,y) with max(|x|,|y|) <= R
Square(R) == {<<x, y>> : x \in (-R)..R, y \in (-R)..R}

\* the digest in hex starts with the pattern
MatchesPattern(hex) == Len(hex) >= messageLen /\ SubSeq(hex, 1, messageLen) = message

\* the candidate Search builds for a delta pair, and whether its digest (computed from
\* scratch, rendered in hex) starts with the pattern
CandidateOf(d) ==
  alter(Slice(commit, 0, commitLen), authOffset, authDate + d[1], commOffset, commDate + d[2])
PairMatches(d) == MatchesPattern(HexString(SHA1(CandidateOf(d))))
HarnessIdle ==
  /\ sp_R = 0 /\ sp_n = 0 /\ sp_seen = <<>>
  /\ cm_sha = <<>> /\ cm_res = <<>> /\ cm_old = <<>>
  /\ al_buf = <<>> /\ al_old = <<>> /\ al_n = 0

OriginalHead == CommitObject(HexString(SHA1(commit)))

Init ==
  /\ \E in \in RunInputs :
       /\ in[3] \in BaseDates
       /\ commit = getCommit(CatFile(in[3][1], in[3][2]))
       /\ message = in[1] /\ dry_run = in[2]
  /\ ParseMessage
  /\ ParseCommit
  /\ gctx = CC_SHA1_Update(CC_SHA1_Init, Slice(commit, 0, PrefixLen))
  /\ matching = {d \in Square(Radius) : PairMatches(d)}
  /\ found = FALSE
  /\ count = 0
  /\ pc = [w \in Workers |-> "loop"]
  /\ n = [w \in Workers |-> ArgsStart(w)]
  /\ newCommit = [w \in Workers |-> Slice(commit, 0, commitLen)]
  /\ hash = [w \in Workers |-> <<>>]
  /\ delta = [w \in Workers |-> <<0, 0>>]
  /\ tmp = [w \in Workers |-> 0]
  /\ tmpfile = <<>>
  /\ store = {OriginalHead} \cup {Ancestor(k) : k \in 1..HistoryDepth}
  /\ HEAD = OriginalHead
  /\ log = [w \in Workers |-> <<>>]
  /\ evals = [w \in Workers |-> <<>>]
  /\ late = [w \in Workers |-> 0]
  /\ status = "running"
  /\ HarnessIdle

Next ==
  \/ \E w \in Workers : LoopTest(w)
  \/ \E w \in Workers : Inc(w)
  \/ \E w \in Workers : Check(w)
  \/ \E w \in Workers : Evaluate(w)
  \/ \E w \in Workers : Claim(w)
  \/ \E w \in Workers : Report(w)
  \/ \E w \in Workers : WriteFile(w)
  \/ \E w \in Workers : Verify(w)
  \/ \E w \in Workers : ResetParent(w)
  \/ \E w \in Workers : WriteObject(w)
  \/ \E w \in Workers : ResetSha(w)
  \/ Join

Spec == Init /\ [][Next]_vars

\* the scheduler runs some runnable thread: a run does not stop while a step is possible
SpecLive == Spec /\ WF_vars(Next)

----------------------------------------------------------------------------
(* Harnesses for the pure functions: inputs drawn in the initial state,     *)
(* the function applied by the actions.                                      *)

RunIdle ==
  /\ found = FALSE /\ count = 0
  /\ pc = [w \in Workers |-> "done"]
  /\ n = [w \in Workers |-> 0]
  /\ newCommit = [w \in Workers |-> <<>>]
  /\ hash = [w \in Workers |-> <<>>]
  /\ delta = [w \in Workers |-> <<0, 0>>]
  /\ tmp = [w \in Workers |-> 0]
  /\ tmpfile = <<>> /\ store = {} /\ HEAD = Ancestor(0)
  /\ log = [w \in Workers |-> <<>>]
  /\ evals = [w \in Workers |-> <<>>]
  /\ late = [w \in Workers |-> 0]
  /\ status = "idle"

MessageIdle ==
  /\ message = <<>> /\ messageLen = 0 /\ hexMessage = TranslateHex(<<>>) /\ dry_run = FALSE

CommitIdle ==
  /\ commit = <<>> /\ headerLen = 0 /\ commitLen = 0 /\ authOffset = 0 /\ commOffset = 0
  /\ authDate = 0 /\ commDate = 0 /\ dateLen = 0 /\ gctx = CC_SHA1_Init
  /\ matching = {}

runVars == <<found, count, pc, n, newCommit, hash, delta, tmp, tmpfile, store, HEAD,
             log, evals, late, status>>

(* Delta Enumerator: the indices the search loop ranges over, for a radius *)

InitSpiral ==
  /\ sp_R \in 1..MaxRadius /\ sp_n = 1 /\ sp_seen = <<>>
  /\ cm_sha = <<>> /\ cm_res = <<>> /\ cm_old = <<>>
  /\ al_buf = <<>> /\ al_old = <<>> /\ al_n = 0
  /\ MessageIdle /\ CommitIdle /\ RunIdle

\* for (n = 1; n < spiral_max(R); n++) spiral_pair(n, &da, &dc)
SpiralStep ==
  /\ sp_R > 0 /\ sp_n < spiral_max(sp_R)
  /\ sp_seen' = Append(sp_seen, spiral_pair(sp_n))
  /\ sp_n' = sp_n + 1
  /\ UNCHANGED <<sp_R, cmVars, alVars, globals, runVars>>

SpecSpiral == InitSpiral /\ [][SpiralStep]_vars

(* Match Predicate: a pattern and a digest *)

HexAlphabet == {48, 57, 97, 102}     \* '0', '9', 'a', 'f'
TestNibbles == {0, 9, 10, 15}
TestPatterns == UNION {[1..k -> HexAlphabet] : k \in 1..MaxPatLen}
TestBytes == {16 * hi + lo : hi \in TestNibbles, lo \in TestNibbles}
TestDigests ==
  {<<b[1], b[2]>> \o [k \in 1..(SHA_DIGEST_LENGTH - 2) |-> 0] : b \in TestBytes \X TestBytes}

InitCmp ==
  /\ message \in TestPatterns
  /\ ParseMessage
  /\ dry_run = FALSE
  /\ cm_sha \in TestDigests /\ cm_res = <<>> /\ cm_old = <<>>
  /\ sp_R = 0 /\ sp_n = 0 /\ sp_seen = <<>>
  /\ al_buf = <<>> /\ al_old = <<>> /\ al_n = 0
  /\ CommitIdle /\ RunIdle

\* git-vain.c: shacmp(hash)
CmpBytes ==
  /\ cm_sha # <<>> /\ cm_res = <<>>
  /\ cm_res' = <<shacmp(cm_sha)>>
  /\ UNCHANGED <<cm_sha, cm_old, spVars, alVars, globals, runVars>>

\* prog.c: shacmp(message, hash)
CmpChars ==
  /\ cm_sha # <<>> /\ cm_old = <<>>
  /\ cm_old' = <<prog_shacmp(message, cm_sha)>>
  /\ UNCHANGED <<cm_sha, cm_res, spVars, alVars, globals, runVars>>

SpecCmp == InitCmp /\ [][CmpBytes \/ CmpChars]_vars

(* Candidate Builder: a base buffer and a sequence of delta pairs *)

AlterDates == {<<50, 53>>, <<98, 101>>, <<10, 19>>}
Deltas == (-MaxDelta)..MaxDelta

\* the adjusted value has the digit count of the field it is written to
WithinWidth(orig, val) == val >= 0 /\ Len(sprintf_d(val)) = Len(sprintf_d(orig))

InitAlter ==
  /\ \E d \in AlterDates : commit = getCommit(CatFile(d[1], d[2]))
  /\ ParseCommit
  /\ gctx = CC_SHA1_Update(CC_SHA1_Init, Slice(commit, 0, PrefixLen))
  /\ matching = {}
  /\ al_buf = Slice(commit, 0, commitLen)     \* Search: memcpy(newCommit, args.commit, commitLen)
  /\ al_old = Slice(commit, 0, commitLen)
  /\ al_n = 0
  /\ sp_R = 0 /\ sp_n = 0 /\ sp_seen = <<>>
  /\ cm_sha = <<>> /\ cm_res = <<>> /\ cm_old = <<>>
  /\ MessageIdle /\ RunIdle

\* alter(newCommit, authOffset, authDate+da, commOffset, commDate+dc), in both programs
AlterStep ==
  /\ al_buf # <<>> /\ al_n < MaxAlter
  /\ \E x \in Deltas, y \in Deltas :
       /\ WithinWidth(authDate, authDate + x) /\ WithinWidth(commDate, commDate + y)
       /\ al_buf' = alter(al_buf, authOffset, authDate + x, commOffset, commDate + y)
       /\ al_old' = prog_alter(al_old, authOffset, authDate + x, commOffset, commDate + y)
  /\ al_n' = al_n + 1
  /\ UNCHANGED <<spVars, cmVars, globals, runVars>>

SpecAlter == InitAlter /\ [][AlterStep]_vars

(* Commit Model: main's parse of a commit, well-formed or not *)

\* one header line of `git cat-file -p`: as git prints it, left out, or without the
\* "<email> " part that ends in the "> " delimiter
HeaderLine(marker, who, date, shape) ==
  CASE shape = "ok" -> marker \o <<who, 32, 60, who, 62, 32>> \o sprintf_d(date) \o <<32, 43, 48, 48, 48, 48>>
    [] shape = "absent" -> <<>>
    [] OTHER -> marker \o <<who, 32>> \o sprintf_d(date) \o <<32, 43, 48, 48, 48, 48>>

LineShapes == {"ok", "absent", "nodelim"}
TestMessages == {<<109, 115, 103, 10>>, <<97, 32, 62, 32, 98, 10>>}     \* "msg\n", "a > b\n"

TestBodies ==
  {<<116, 114, 101, 101, 32, 48>> \o HeaderLine(AuthorMarker, 97, d[1], sa)
     \o HeaderLine(CommitterMarker, 99, d[2], sc) \o <<10, 10>> \o m :
   d \in AlterDates, sa \in LineShapes, sc \in LineShapes, m \in TestMessages}

InitParse ==
  /\ commit \in {getCommit(b) : b \in TestBodies}
  /\ headerLen = 0 /\ commitLen = 0 /\ authOffset = 0 /\ commOffset = 0
  /\ authDate = 0 /\ commDate = 0 /\ dateLen = 0 /\ gctx = CC_SHA1_Init
  /\ matching = {}
  /\ MessageIdle /\ HarnessIdle
  /\ found = FALSE /\ count = 0
  /\ pc = [w \in Workers |-> "unborn"]
  /\ n = [w \in Workers |-> 0]
  /\ newCommit = [w \in Workers |-> <<>>]
  /\ hash = [w \in Workers |-> <<>>]
  /\ delta = [w \in Workers |-> <<0, 0>>]
  /\ tmp = [w \in Workers |-> 0]
  /\ tmpfile = <<>> /\ store = {} /\ HEAD = Ancestor(0)
  /\ log = [w \in Workers |-> <<>>]
  /\ evals = [w \in Workers |-> <<>>]
  /\ late = [w \in Workers |-> 0]
  /\ status = "scan"

\* main: advance past the header; headerLen, commitLen
ScanHeader ==
  /\ status = "scan"
  /\ headerLen' = HeaderLenOf(commit)
  /\ commitLen' = CommitLenOf(commit)
  /\ status' = "offsets"
  /\ UNCHANGED <<commit, message, messageLen, hexMessage, dry_run, authOffset, commOffset,
                 authDate, commDate, dateLen, gctx, matching, harnessVars,
                 found, count, pc, n, newCommit, hash, delta, tmp, tmpfile, store, HEAD,
                 log, evals, late>>

\* main: authOffset = getTimeOffset("\nauthor ", commit); commOffset = getTimeOffset(...)
\* (getTimeOffset has no failure return)
TimeOffsets ==
  /\ status = "offsets"
  /\ authOffset' = getTimeOffset(AuthorMarker, commit)
  /\ commOffset' = getTimeOffset(CommitterMarker, commit)
  /\ status' = "dates"
  /\ UNCHANGED <<commit, message, messageLen, hexMessage, dry_run, headerLen, commitLen,
                 authDate, commDate, dateLen, gctx, matching, harnessVars,
                 found, count, pc, n, newCommit, hash, delta, tmp, tmpfile, store, HEAD,
                 log, evals, late>>

\* main: the dates, the field width, the prefix digest, then pthread_create of every worker
StartWorkers ==
  /\ status = "dates"
  /\ authDate' = dateAtOffset(authOffset, commit)
  /\ commDate' = dateAtOffset(commOffset, commit)
  /\ dateLen' = Len(sprintf_d(dateAtOffset(authOffset, commit)))
  /\ gctx' = CC_SHA1_Update(CC_SHA1_Init, Slice(commit, 0, PrefixLen))
  /\ pc' = [w \in Workers |-> "loop"]
  /\ n' = [w \in Workers |-> ArgsStart(w)]
  /\ newCommit' = [w \in Workers |-> Slice(commit, 0, commitLen)]
  /\ status' = "running"
  /\ UNCHANGED <<commit, message, messageLen, hexMessage, dry_run, headerLen, commitLen,
                 authOffset, commOffset, matching, harnessVars,
                 found, count, hash, delta, tmp, tmpfile, store, HEAD, log, evals, late>>

SpecParse == InitParse /\ [][ScanHeader \/ TimeOffsets \/ StartWorkers]_vars

----------------------------------------------------------------------------
(* Properties *)

EventsOf(w, ev) == {k \in 1..Len(log[w]) : log[w][k].ev = ev}
Occurrences(ev) == UNION {{<<w, k>> : k \in EventsOf(w, ev)} : w \in Workers}
Invocations == Occurrences("report")
Mutating == {"reset-parent", "hash-object-w", "reset-sha"}
BackendCommands == Mutating \cup {"fwrite", "hash-object"}
InitialStore == {OriginalHead} \cup {Ancestor(k) : k \in 1..HistoryDepth}

\* C1: in every interleaving the finalizer (ammend_commit) is invoked at most once in
\* a run, and exactly once in a finished run in which some worker evaluated a
\* matching candidate.
C1_FinalizerOnce ==
  /\ Cardinality(Invocations) <= 1
  /\ (status = "exit0" /\ found) => Cardinality(Invocations) = 1

\* C2: in live mode a finalizer executes a history-mutating backend step only after its
\* own hash-object call returned the digest it computed locally; when the two differ
\* the process has exited and that call is the finalizer's last step.
C2_VerifyBeforeMutation ==
  \A w \in Workers : \A k \in 1..Len(log[w]) :
    /\ log[w][k].ev \in Mutating =>
         \E j \in 1..(k - 1) :
           /\ log[w][j].ev = "hash-object"
           /\ log[w][j].git = log[w][j].prog
           /\ log[w][j].prog = HexString(hash[w])
           /\ \A i \in j..k : log[w][i].ev # "report"
    /\ (log[w][k].ev = "hash-object" /\ log[w][k].git # log[w][k].prog) =>
         k = Len(log[w]) /\ status = "exit1"

C2_Witness ==
  /\ \E w \in Workers : EventsOf(w, "reset-sha") # {}
  /\ \E w \in Workers : \E k \in EventsOf(w, "hash-object") : log[w][k].git # log[w][k].prog

\* C3: with the dry-run flag set nothing outside the process changes: the staging
\* file is not written, no backend command is issued, the store and HEAD are as found.
C3_DryRunNoMutation ==
  dry_run =>
    /\ tmpfile = <<>> /\ store = InitialStore /\ HEAD = OriginalHead
    /\ \A w \in Workers : \A k \in 1..Len(log[w]) : log[w][k].ev \notin BackendCommands

C3_Witness == dry_run /\ status = "exit0" /\ Cardinality(Invocations) = 2

\* C4: a finished live run that found a match executed `git reset --soft HEAD^` exactly
\* once and ends with HEAD at a stored object whose digest matches the pattern.
C4_RollbackOnce ==
  (status = "exit0" /\ ~dry_run /\ found) =>
    /\ Cardinality(Occurrences("reset-parent")) = 1
    /\ HEAD \in store /\ HEAD.up = 0 /\ MatchesPattern(HEAD.sha)

\* C7: worker i evaluates only indices n = i+1 (mod W) within [1, max), no index is
\* evaluated twice, and a finished run without a match evaluated every index once.
Evaluations == UNION {{<<w, k>> : k \in 1..Len(evals[w])} : w \in Workers}
C7_Partition ==
  /\ \A e \in Evaluations :
       /\ evals[e[1]][e[2]] % NumThreads = (e[1] + 1) % NumThreads
       /\ evals[e[1]][e[2]] \in 1..(SearchMax - 1)
  /\ \A e1 \in Evaluations, e2 \in Evaluations :
       e1 # e2 => evals[e1[1]][e1[2]] # evals[e2[1]][e2[2]]
  /\ (status = "exit0" /\ ~found) =>
       \A i \in 1..(SearchMax - 1) : \E e \in Evaluations : evals[e[1]][e[2]] = i

C7_Witness == status = "exit0" /\ ~found /\ \A w \in Workers : Len(evals[w]) >= 3

\* C8: the digest a worker obtains from the copied prefix state and the bytes
\* [authOffset, commitLen) of its buffer is the digest of its whole buffer computed
\* from scratch, and the shared prefix state stays the digest state of the base
\* buffer's bytes [0, authOffset).
C8_PrefixDigest ==
  /\ \A w \in Workers : hash[w] # <<>> => hash[w] = SHA1(Slice(newCommit[w], 0, commitLen))
  /\ status # "idle" => gctx = CC_SHA1_Update(CC_SHA1_Init, Slice(commit, 0, authOffset))

C8_Witness ==
  \E w \in Workers : Len(evals[w]) >= 3 /\ hash[w] # <<>> /\ newCommit[w] # commit

\* C5 as stated: the pairs visited for radius R are pairwise distinct and are exactly
\* the pairs (x,y) with max(|x|,|y|) <= R.
SeenSet == {sp_seen[i] : i \in 1..Len(sp_seen)}
SpiralDone == sp_R > 0 /\ sp_n = spiral_max(sp_R)
C5_Bijection ==
  SpiralDone => (Cardinality(SeenSet) = Len(sp_seen) /\ SeenSet = Square(sp_R))

\* C5 amended: the pairs visited for radius R are pairwise distinct and are exactly
\* the pairs (x,y) with max(|x|,|y|) <= R other than (0,0) and (R,-R).
C5_AllButTwo ==
  /\ Cardinality(SeenSet) = Len(sp_seen)
  /\ SpiralDone => SeenSet = Square(sp_R) \ {<<0, 0>>, <<sp_R, -sp_R>>}

C5_Witness == SpiralDone /\ sp_R >= 2

\* C6: the pair at index n has Chebyshev distance exactly floor((sqrt(n)+1)/2), so
\* the distance never decreases along the enumeration.
Chebyshev(pair) == Max2(Abs(pair[1]), Abs(pair[2]))
RingOf(i) == CHOOSE r \in 0..i : (2 * r - 1) * (2 * r - 1) <= i /\ i < (2 * r + 1) * (2 * r + 1)
C6_ChebyshevOrder ==
  /\ \A i \in 1..Len(sp_seen) : Chebyshev(sp_seen[i]) = RingOf(i)
  /\ \A i \in 1..Len(sp_seen) : \A j \in i..Len(sp_seen) :
       Chebyshev(sp_seen[i]) <= Chebyshev(sp_seen[j])

C6_Witness == \E i \in 1..Len(sp_seen) : Chebyshev(sp_seen[i]) = 3

\* C9: shacmp is true iff every complete hex pair of the pattern equals the digest's
\* corresponding byte as two lower-case hex digits and, for a pattern of odd length,
\* its last character equals the high nibble of the next byte.
PatternMatches(P, D) ==
  /\ \A k \in 0..((Len(P) \div 2) - 1) : <<P[2 * k + 1], P[2 * k + 2]>> = sprintf_02x(D[k + 1])
  /\ Len(P) % 2 = 1 => P[Len(P)] = HexChar(D[(Len(P) + 1) \div 2] \div 16)
C9_MatchPredicate ==
  /\ cm_res # <<>> => (cm_res[1] <=> PatternMatches(message, cm_sha))
  /\ cm_old # <<>> => (cm_old[1] <=> PatternMatches(message, cm_sha))

C9_Witness == cm_res = <<TRUE>> /\ cm_old = <<TRUE>> /\ Len(message) = 3 /\ cm_sha[2] % 16 # 0

\* C10: after any sequence of alter calls with values of the fields' digit counts the
\* scratch buffer has the base buffer's length and equals it outside the two
\* timestamp fields; the base buffer is unchanged.
FieldBytes ==
  {authOffset + i : i \in 0..(Len(sprintf_d(authDate)) - 1)}
  \cup {commOffset + i : i \in 0..(Len(sprintf_d(commDate)) - 1)}
SameOutsideFields(buf) ==
  /\ Len(buf) = Len(commit)
  /\ \A i \in 0..(Len(commit) - 1) : i \notin FieldBytes => At(buf, i) = At(commit, i)
FieldOf(buf, off, orig) == Slice(buf, off, off + Len(sprintf_d(orig)))
C11_FieldsRendered ==
  \A w \in Workers :
    (/\ hash[w] # <<>>
     /\ WithinWidth(authDate, authDate + delta[w][1])
     /\ WithinWidth(commDate, commDate + delta[w][2]))
    => /\ FieldOf(newCommit[w], authOffset, authDate) = sprintf_d(authDate + delta[w][1])
       /\ FieldOf(newCommit[w], commOffset, commDate) = sprintf_d(commDate + delta[w][2])

\* C12: a candidate whose adjusted author or committer time does not have the digit
\* count of its field is skipped: no worker hashes it and none reports it.
Overflows(d) ==
  ~(WithinWidth(authDate, authDate + d[1]) /\ WithinWidth(commDate, commDate + d[2]))
C12_OverflowSkipped ==
  /\ \A e \in Evaluations : ~Overflows(spiral_pair(evals[e[1]][e[2]]))
  /\ \A o \in Invocations : ~Overflows(<<log[o[1]][o[2]].da, log[o[1]][o[2]].dc>>)

Enumerated == {spiral_pair(k) : k \in 1..(SearchMax - 1)}
Reported == {<<log[o[1]][o[2]].da, log[o[1]][o[2]].dc>> : o \in Invocations}

\* C13 as stated: when exactly one delta pair with max(|x|,|y|) <= R matches, no other
\* pair is ever reported and a finished run has reported that pair.
C13_UniqueInSquare ==
  LET M == matching
  IN Cardinality(M) = 1 => (Reported \subseteq M /\ (status = "exit0" => Reported = M))

\* C13 amended: when exactly one of the enumerated delta pairs (those with
\* max(|x|,|y|) <= R other than (0,0) and (R,-R)) matches, then in every interleaving
\* the finalizer is invoked at most once, no other pair is ever reported, the run does
\* not fail, and a finished run has reported that pair.
C13_UniqueEnumerated ==
  LET M == matching \cap Enumerated
  IN Cardinality(M) = 1 =>
       /\ Reported \subseteq M
       /\ Cardinality(Invocations) <= 1
       /\ status # "exit1"
       /\ status = "exit0" => Reported = M

C13_Witness ==
  /\ status = "exit0" /\ ~dry_run /\ Cardinality(Invocations) = 1
  /\ Cardinality(matching \cap Enumerated) = 1
  /\ \A w \in Workers : Len(evals[w]) >= 1

\* C14: whenever some index in [1, max) has a matching candidate, every reported delta
\* pair is spiral_pair(n) for the smallest such n, and a finished run has reported it.
MatchingIndices == {k \in 1..(SearchMax - 1) : spiral_pair(k) \in matching}
C14_FirstReported ==
  MatchingIndices # {} =>
    /\ Reported \subseteq {spiral_pair(SetMin(MatchingIndices))}
    /\ status = "exit0" => Reported # {}

\* C15: when no enumerated candidate matches, the run terminates with every worker
\* returned at the end of its residue class, found still false and the finalizer never
\* invoked; a finished run is one with found false and no report exactly when no
\* enumerated candidate matches, so exhaustion and success end in different outcomes.
NoMatch == matching \cap Enumerated = {}
Exhausted ==
  /\ status = "exit0" /\ ~found /\ Invocations = {}
  /\ \A w \in Workers : pc[w] = "done" /\ n[w] >= SearchMax
MarkerAt(search) ==
  {p \in headerLen..(Len(commit) - Len(search)) : StrnEq(commit, p, search)}
DelimAfter(p) == {q \in p..(Len(commit) - 2) : StrnEq(commit, q, GtSpace)}
Located(search) ==
  MarkerAt(search) # {} /\ DelimAfter(SetMin(MarkerAt(search)) + Len(search)) # {}
ExpectedOffset(search) == SetMin(DelimAfter(SetMin(MarkerAt(search)) + Len(search))) + 2
WellFormed == Located(AuthorMarker) /\ Located(CommitterMarker)
C16_ParseContract ==
  /\ (status \in {"dates", "running"} /\ WellFormed) =>
       /\ authOffset = ExpectedOffset(AuthorMarker)
       /\ commOffset = ExpectedOffset(CommitterMarker)
  /\ (status \in {"dates", "running"}) => WellFormed
  /\ (\E w \in Workers : pc[w] # "unborn") => WellFormed

\* C17: found starts false and no step changes it from true to false, so its value
\* changes at most once in a run, from false to true.
C17_FoundMonotone == (found = FALSE) /\ [][found => found']_vars

C17_Witness ==
  /\ found /\ status = "exit0"
  /\ \A w \in Workers : EventsOf(w, "report") # {}

\* C18: no worker hashes more than one candidate after found was set, and once found
\* is set the run ends.
C18_BoundedLatency ==
  /\ [](\A w \in Workers : late[w] <= 1)
  /\ found ~> (status # "running")

C18_Witness == status = "exit0" /\ \E w \in Workers : late[w] = 1 /\ EventsOf(w, "report") = {}

\* C19: no step of a run decreases count.
C19_CountMonotone == [][count' >= count]_vars

\* C20: between a finalizer's write of /tmp/commit and its last read of it (hash-object,
\* then hash-object -w) the file holds that finalizer's candidate, and the object it
\* resets HEAD to is the one it stored.
Staging == {"hashobj", "reset1", "writeobj"}
C20_StagingStable ==
  \A w \in Workers :
    /\ pc[w] \in Staging => tmpfile = Slice(newCommit[w], headerLen, commitLen)
    /\ pc[w] = "reset2" => CommitObject(HexString(hash[w])) \in store

====
